---- MODULE Spec2Model ----
(***************************************************************************)
(* Model of the Diablo16 serial driver (src/src/serial_diablo.h): the      *)
(* session state of class Diablo, the dispatch engine Diablo::invoke, the  *)
(* two bounded waits ack() and read_word(), the word codec and the sector  *)
(* write retry loop.  The serial port is the pair (rx, written): rx is the *)
(* input buffer the device fills, written is every byte the driver wrote.  *)
(***************************************************************************)
EXTENDS Integers, Sequences, FiniteSets, TLC

\* ------------------------------------------------------------------ bounds
MaxCalls == 2        \* API calls issued in one behaviour
MaxSectorWrites == 1 \* media_write_sector calls in one behaviour of the retry specification
MaxTimedCalls == 2   \* API calls in one behaviour of the fine-clock specification
MaxRx == 2           \* capacity of the serial input buffer
CoarseTick == 600    \* clock advance per step in the engine specification
FineTick == 30       \* clock advance per step in the single-wait specification
ClockMod == 65536    \* modulus of millis(): 2^32 on the device, narrowed for TLC's integers
MaxBlocks == 2       \* portions in one compound request of the codec specification
MaxBlockLen == 2     \* words in one portion of the codec specification
MaxPoints == 3       \* points in one polygon of the polygon specification
MaxPolyCalls == 2    \* API calls in one behaviour of the polygon specification
LapTick == 512       \* clock advance per step in the specification of termination
MaxLegacyCalls == 2  \* API calls in one behaviour of the earlier revision
MaxBothCalls == 2    \* API calls in one behaviour of the two revisions side by side
MaxVertices == 3     \* words in one vertices vector handed to a polygon command

\* ------------------------------------------------------- program constants
ACK == 6                      \* 0x06, the byte ack() accepts
DEAD == 57005                 \* 0xDEAD, read_word()'s timeout value
ack_timeout_length == 100
ack_give_up_length == 1000
rw_timeout_length == 100
rw_give_up_length == 1000
max_attempts == 10            \* media_write_sector: attempt < 10
OutstandingMod == 256         \* uint8_t outstanding_words
legacy_timeout_declared == 100       \* earlier revision: timeout_length = 100
legacy_ack_give_up_declared == 4000  \* earlier revision, ack(): give_up_length = 4000
legacy_rw_give_up_declared == 1000   \* earlier revision, read_word(): give_up_length = 1000

\* bytes the device may put on the wire: the ack 0x06, bytes of small words,
\* and the two bytes of 0xDEAD
DeviceBytes == {0, 1, 5, 6, 173, 222}

\* bytes on the wire in the fine-clock specification: the ack and one other
TimedBytes == {5, 6}

\* bytes of the replies to a sector write: the ack, and the words 0 and 1
SectorReplyBytes == {0, 1, 6}

\* bytes on the wire of the earlier revision: the ack, and the bytes of the
\* words 0 and 1
LegacyReplyBytes == {0, 1, 6}

\* values of millis() shortly before it wraps to 0: closer to the wrap than a
\* soft interval, and closer than a hard interval
WrapOrigins == {ClockMod - 50, ClockMod - 500}

VARIABLES
  pending_ack,        \* bool pending_ack
  outstanding_words,  \* uint8_t outstanding_words
  previous_command,   \* const char *previous_command
  rx,                 \* bytes available()/read() serve, oldest first
  written,            \* every byte passed to serial->write, in order
  now,                \* millis()
  polled,             \* the wait in progress has made a pass at this value of millis()
  timeout,            \* local of ack()/read_word()
  give_up,            \* local of ack()/read_word()
  pc,                 \* position of the single caller
  cur,                \* arguments of the invoke call in progress
  attempt,            \* media_write_sector's attempt counter
  ret,                \* Response returned by the last invoke
  calls,              \* API calls issued so far
  dispatched,         \* the invoke calls that returned after step 2, in order
  ninv,               \* invoke calls made by the API call in progress
  results,            \* what those invoke calls returned, in order
  unacked,            \* requests written since ack() last read 0x06
  g,                  \* what the invoke call in progress has done so far
  wa,                 \* the last ack() wait of the call in progress
  ww,                 \* the last read_word() wait of the call in progress
  lg                  \* the driver of the earlier revision (src/unnamed/part_000)

vars == <<pending_ack, outstanding_words, previous_command, rx, written, now,
          polled, timeout, give_up, pc, cur, attempt, ret, calls, dispatched, ninv,
          results, unacked, g, wa, ww, lg>>

\* ------------------------------------------------------------- word codec
\* mutant of write_word: least significant byte first
write_word_LowFirst(word) == << word % 256, (word \div 256) % 256 >>

\* write_word: serial->write((uint8_t)(word >> 8)); serial->write((uint8_t)(word & 0xFF))
write_word(word) == << (word \div 256) % 256, word % 256 >>

\* mutant of write_words: the last word of the portion goes out first
RECURSIVE write_words_Reversed(_)
write_words_Reversed(words) ==
  IF words = << >> THEN << >>
  ELSE write_words_Reversed(Tail(words)) \o write_word(Head(words))

\* write_words: write_word for each word, in order
RECURSIVE write_words(_)
write_words(words) ==
  IF words = << >> THEN << >>
  ELSE write_word(Head(words)) \o write_words(Tail(words))

\* write_compound_words: write_words for each portion, in order
RECURSIVE write_compound_words(_)
write_compound_words(compound_request) ==
  IF compound_request = << >> THEN << >>
  ELSE write_words(Head(compound_request)) \o write_compound_words(Tail(compound_request))

\* write_bytes: serial->write(b) for each byte of the raw request
write_bytes(raw_request) == raw_request

\* mutant of decode_word: the second byte taken as the high byte
decode_word_LowFirst(b1, b2) == ((b2 * 256) % 65536) + b1

\* the return expression of read_word: ((uint16_t) read() << 8) | (uint16_t) read()
\* (the low byte of b1 << 8 is zero, so the bitwise or is a sum)
decode_word(b1, b2) == ((b1 * 256) % 65536) + b2

\* ------------------------------------------------------ command catalogue
\* Response(): the value-initialised Response of each response type
Default(shape) == IF shape = "bool" THEN FALSE ELSE 0

\* mutant of Responder: the boolean responder tests the word for non-zero
Responder_Truthy(shape, word) ==
  CASE shape = "ackonly" -> 0
    [] shape = "word"    -> word
    [] shape = "bool"    -> (word # 0)

\* the responder lambdas: no_response, read_word(), 1 == read_word()
Responder(shape, word) ==
  CASE shape = "ackonly" -> 0
    [] shape = "word"    -> word
    [] shape = "bool"    -> (1 = word)

\* the bytes request() writes: write_compound_words(compound_body) for the
\* graphics commands, write_word(0x0017); write_bytes(sector) for the sector write
RequestBytes(c) ==
  IF c.api = "media_write_sector"
  THEN write_word(23) \o write_bytes(c.sector)
  ELSE write_compound_words(c.body)

clear(blocking) ==
  [api |-> "clear", name |-> "clear", blocking |-> blocking,
   body |-> << <<65410>> >>, sector |-> << >>, shape |-> "ackonly", response_words |-> 0]

draw_circle(x, y, radius, color, blocking) ==
  [api |-> "draw_circle", name |-> "draw_circle", blocking |-> blocking,
   body |-> << <<65400, x, y, radius, color>> >>, sector |-> << >>,
   shape |-> "ackonly", response_words |-> 0]

\* mutant of poly_points: the coordinates stay in x, y pairs
RECURSIVE poly_points_Interleaved(_)
poly_points_Interleaved(points) ==
  IF points = << >> THEN << >>
  ELSE <<Head(points)[1], Head(points)[2]>> \o poly_points_Interleaved(Tail(points))

\* poly_points: push_back(p.first) for every point, then push_back(p.second)
\* for every point
poly_points(points) ==
  [i \in 1..Len(points) |-> points[i][1]] \o [i \in 1..Len(points) |-> points[i][2]]

\* uint16_t n = vertices.size() / 2
VertexCount(vertices) == (Len(vertices) \div 2) % 65536

draw_polyline(vertices, color, blocking) ==
  [api |-> "draw_polyline", name |-> "draw_polyline", blocking |-> blocking,
   body |-> << <<21, VertexCount(vertices)>>, vertices, <<color>> >>,
   sector |-> << >>, shape |-> "ackonly", response_words |-> 0]

draw_polygon(vertices, color, blocking) ==
  [api |-> "draw_polygon", name |-> "draw_polygon", blocking |-> blocking,
   body |-> << <<19, VertexCount(vertices)>>, vertices, <<color>> >>,
   sector |-> << >>, shape |-> "ackonly", response_words |-> 0]

draw_polygon_filled(vertices, color, blocking) ==
  [api |-> "draw_polygon_filled", name |-> "draw_polygon_filled", blocking |-> blocking,
   body |-> << <<20, VertexCount(vertices)>>, vertices, <<color>> >>,
   sector |-> << >>, shape |-> "ackonly", response_words |-> 0]

contrast(setting) ==
  [api |-> "contrast", name |-> "contrast", blocking |-> TRUE,
   body |-> << <<65344, setting>> >>, sector |-> << >>, shape |-> "word",
   response_words |-> 1]

media_init ==
  [api |-> "media_init", name |-> "media_init", blocking |-> TRUE,
   body |-> << <<65317>> >>, sector |-> << >>, shape |-> "bool",
   response_words |-> 1]

\* the invoke call media_write_sector makes on every attempt; blocking is
\* the literal true, whatever the caller passed
media_write_sector(sector, blocking) ==
  [api |-> "media_write_sector", name |-> "media_set_sector", blocking |-> TRUE,
   body |-> << >>, sector |-> sector, shape |-> "bool", response_words |-> 1]

Sectors == { <<171, 205>> }

NoCall == [api |-> "none", name |-> "", blocking |-> FALSE, body |-> << >>,
           sector |-> << >>, shape |-> "ackonly", response_words |-> 0]

\* ------------------------------------------------------------------ state
\* the earlier revision of the driver is not in use
NoLegacy == [on |-> FALSE]

WaitPcs == {"prior_ack", "own_ack", "drain_read", "response"}

\* the record of one invoke call: the session state at entry (pa0, ow0,
\* prev0, and the number of bytes written so far, w0), how
\* the previous command's ack wait ended and the byte it took (prior,
\* priorByte), the stale words dropped (drained), whether the drain met
\* 0xDEAD (sentinel), whether request() ran (tx) and after how many bytes read
\* (readsAtTx), how this command's own ack wait ended and the byte it took
\* (own, ownByte), whether the responder read a word and its bytes (responded,
\* rbytes), and how many bytes the call took from the port (nreads)
NoTrace == [pa0 |-> FALSE, ow0 |-> 0, prev0 |-> "", w0 |-> 0,
            prior |-> "none", priorByte |-> -1,
            drained |-> 0, sentinel |-> FALSE, tx |-> FALSE, readsAtTx |-> 0,
            own |-> "none", ownByte |-> -1, responded |-> FALSE, rbytes |-> << >>,
            nreads |-> 0, traced |-> << >>]

\* the log lines of invoke and ack() at trace level and the latency line, by
\* their fixed text; the warnings and the errors are not among them
Traced(rec, lines) == [rec EXCEPT !.traced = @ \o lines]

\* what ack() logs on 0x06, and invoke after a successful ack() for the
\* previous command
AckTrace(ok) == IF ok THEN <<"Successful ack">> ELSE << >>
PriorAckTrace(ok) ==
  IF ok THEN <<"Successful ack", "Previous command ack">> ELSE << >>

\* mutant of DeferredTrace: the responder's line is logged all the same
DeferredTrace_GetsResponse == <<"Getting response", "Latency">>

\* the tail of invoke when pending_ack is set: no responder, the latency line
DeferredTrace == <<"Latency">>

\* the record of one wait, kept when on is set: whether it has ended (done);
\* whether the bytes it waits for (one for ack(), two for read_word()) were
\* in the buffer before the hard deadline (early); and of its last pass:
\* whether it came after the hard deadline (late), whether it came more than
\* a soft interval after the hard deadline (over), the bytes it waits for as
\* far as the buffer held them (first), the bytes it took (taken) and the
\* value the wait returned (value); whether the wait has logged its
\* "Timing out waiting for ..." warning (warned) and how often (warnings);
\* and, while the wait runs, the value of millis() when it took its
\* deadlines (start)
NoWait == [on |-> TRUE, done |-> FALSE, early |-> FALSE, late |-> FALSE,
           over |-> FALSE, first |-> << >>, taken |-> << >>, value |-> 0,
           warned |-> FALSE, warnings |-> 0, start |-> 0]

\* the record that is not kept
Off == [NoWait EXCEPT !.on = FALSE]

\* no wait in progress
Reset(wrec) == IF wrec.on THEN NoWait ELSE wrec

\* a wait for n bytes starts on the buffer buf
FreshWait(wrec, buf, n) ==
  IF wrec.on THEN [NoWait EXCEPT !.early = (Len(buf) >= n), !.start = now] ELSE wrec

\* a byte arrives before the hard deadline and completes the n bytes
Arrived(wrec, n) ==
  IF wrec.on /\ now < give_up /\ Len(rx) + 1 >= n
  THEN [wrec EXCEPT !.early = TRUE] ELSE wrec

\* a pass that finds the soft interval run out and the hard one not:
\* log.warn("Timing out waiting for ...")
Warned(wrec) ==
  IF wrec.on /\ now > timeout
  THEN [wrec EXCEPT !.warned = TRUE, !.warnings = @ + 1] ELSE wrec

\* the time the wait in progress has run
Elapsed(wrec) == (now - wrec.start) % ClockMod

\* the last pass of a wait for n bytes with the given soft and hard intervals
EndOf(wrec, soft, hard, n, taken, value) ==
  IF wrec.on
  THEN [wrec EXCEPT !.done = TRUE, !.late = (Elapsed(wrec) > hard),
                    !.over = (Elapsed(wrec) > hard + soft),
                    !.first = SubSeq(rx, 1, IF Len(rx) < n THEN Len(rx) ELSE n),
                    !.taken = taken, !.value = value, !.start = 0]
  ELSE wrec

\* mutant of Init: the constructor leaves pending_ack set
Init_PendingAck ==
  /\ pending_ack = TRUE
  /\ outstanding_words = 0
  /\ previous_command = ""
  /\ rx = << >>
  /\ written = << >>
  /\ now = 0
  /\ polled = FALSE
  /\ timeout = 0
  /\ give_up = 0
  /\ pc = "idle"
  /\ cur = NoCall
  /\ attempt = 0
  /\ ret = 0
  /\ calls = 0
  /\ dispatched = << >>
  /\ ninv = 0
  /\ results = << >>
  /\ unacked = 0
  /\ g = NoTrace
  /\ wa = Off
  /\ ww = Off
  /\ lg = NoLegacy

\* the driver as constructed: pending_ack(false), outstanding_words(0), nothing
\* read from or written to the port
Init ==
  /\ pending_ack = FALSE
  /\ outstanding_words = 0
  /\ previous_command = ""
  /\ rx = << >>
  /\ written = << >>
  /\ now = 0
  /\ polled = FALSE
  /\ timeout = 0
  /\ give_up = 0
  /\ pc = "idle"
  /\ cur = NoCall
  /\ attempt = 0
  /\ ret = 0
  /\ calls = 0
  /\ dispatched = << >>
  /\ ninv = 0
  /\ results = << >>
  /\ unacked = 0
  /\ g = NoTrace
  /\ wa = Off
  /\ ww = Off
  /\ lg = NoLegacy

\* ------------------------------------------------------------ the waits
\* the first two lines of ack(): timeout = millis() + timeout_length,
\* give_up = millis() + give_up_length
BeginAck(at) ==
  /\ pc' = at
  /\ timeout' = (now + ack_timeout_length) % ClockMod
  /\ give_up' = (now + ack_give_up_length) % ClockMod
  /\ now' = now
  /\ polled' = FALSE

\* the first two lines of read_word()
BeginReadWord(at) ==
  /\ pc' = at
  /\ timeout' = (now + rw_timeout_length) % ClockMod
  /\ give_up' = (now + rw_give_up_length) % ClockMod
  /\ now' = now
  /\ polled' = FALSE

\* control leaves the waits: the clock is read again only by the next wait,
\* which takes its own origin
EndWait(at) ==
  /\ pc' = at
  /\ timeout' = 0
  /\ give_up' = 0
  /\ now' = 0
  /\ polled' = FALSE

\* millis() advances by d while a wait is polling: the busy loop makes at
\* least one pass at every value of the clock it sees
Tick(d) ==
  /\ pc \in WaitPcs
  /\ polled
  /\ now' = (now + d) % ClockMod
  /\ polled' = FALSE
  /\ UNCHANGED <<pending_ack, outstanding_words, previous_command, rx, written,
                 timeout, give_up, pc, cur, attempt, ret, calls, dispatched, ninv,
                 results, unacked, g, wa, ww>>
  /\ UNCHANGED lg

\* the values of millis() at which a pass of the wait in progress first finds
\* something new: the soft deadline passed, the hard deadline passed, the
\* clock wrapped to 0
Instants == {(timeout + 1) % ClockMod, (give_up + 1) % ClockMod, 0}

\* how far millis() runs in one step of at most d: to the nearest of those
\* values if one is nearer than d
Stride(d) ==
  LET ahead == {(t - now) % ClockMod : t \in Instants} \ {0}
      near == {a \in ahead : a < d}
  IN IF near = {} THEN d ELSE CHOOSE a \in near : \A b \in near : a <= b

\* millis() advances while a wait is polling, the wait making a pass at every
\* millisecond: the passes between two of the values above all find the same,
\* so the clock is taken forward by d at a time but never over such a value
TickByPasses(d) ==
  /\ pc \in WaitPcs
  /\ polled
  /\ now' = (now + Stride(d)) % ClockMod
  /\ polled' = FALSE
  /\ UNCHANGED <<pending_ack, outstanding_words, previous_command, rx, written,
                 timeout, give_up, pc, cur, attempt, ret, calls, dispatched, ninv,
                 results, unacked, g, wa, ww>>
  /\ UNCHANGED lg

\* millis() outside the waits: by the time the next wait takes its deadlines
\* the clock has run to t
ClockRuns(values) ==
  /\ pc \in {"idle", "drain", "transmit"}
  /\ now = 0
  /\ \E t \in values : now' = t
  /\ UNCHANGED <<pending_ack, outstanding_words, previous_command, rx, written,
                 polled, timeout, give_up, pc, cur, attempt, ret, calls, dispatched,
                 ninv, results, unacked, g, wa, ww>>
  /\ UNCHANGED lg

\* the display puts one byte on the wire
DeviceSend(bytes) ==
  /\ Len(rx) < MaxRx
  /\ \E b \in bytes : rx' = Append(rx, b)
  /\ wa' = IF pc \in {"prior_ack", "own_ack"} THEN Arrived(wa, 1) ELSE wa
  /\ ww' = IF pc \in {"drain_read", "response"} THEN Arrived(ww, 2) ELSE ww
  /\ UNCHANGED <<pending_ack, outstanding_words, previous_command, written, now,
                 polled, timeout, give_up, pc, cur, attempt, ret, calls, dispatched, ninv,
                 results, unacked, g>>
  /\ UNCHANGED lg

\* ------------------------------------------------------- Diablo::invoke
\* invoke up to its first wait: "Invoking", then if (pending_ack) ack()
InvokeEntry(c, n) ==
  /\ cur' = c
  /\ g' = [NoTrace EXCEPT !.pa0 = pending_ack, !.ow0 = outstanding_words,
                          !.prev0 = previous_command, !.w0 = Len(written),
                          !.traced = <<"Invoking">>]
  /\ wa' = IF pending_ack THEN FreshWait(wa, rx, 1) ELSE Reset(wa)
  /\ ww' = Reset(ww)
  /\ ret' = Default(c.shape)
  /\ ninv' = n + 1
  /\ IF pending_ack THEN BeginAck("prior_ack") ELSE EndWait("drain")
  /\ UNCHANGED <<pending_ack, outstanding_words, previous_command, rx, written,
                 unacked>>

\* ack(): the hard deadline test inside the soft one (millis() > timeout,
\* then millis() > give_up), made before the byte is looked for
AckExpired == now > timeout /\ now > give_up

\* ack(): what one pass of the do-while does
AckPass == IF AckExpired THEN "break"
           ELSE IF Len(rx) > 0 THEN "read" ELSE "again"

\* ack(): the value of response when the loop is left; -1 after the break
AckResponse == IF AckPass = "read" THEN Head(rx) ELSE -1

\* mutant of AckResult: everything but the display's NAK (0x15) is success
AckResult_NotNak(response) == response # 21

\* mutant of AckResult: any byte read counts as the acknowledgement
AckResult_AnyByte(response) == response # -1

\* ack(): the value returned for that response
AckResult(response) == response = ACK

\* ack(): a pass that leaves the loop running; the soft interval restarts
AckAgain ==
  /\ timeout' = IF now > timeout
                THEN (now + ack_timeout_length) % ClockMod ELSE timeout
  /\ wa' = Warned(wa)
  /\ polled' = TRUE
  /\ UNCHANGED <<pc, give_up, now>>

\* read_word(): what one pass of the while does; two buffered bytes are read
\* whatever the clock says
ReadWordPass == IF Len(rx) >= 2 THEN "read"
                ELSE IF now > timeout /\ now > give_up THEN "dead" ELSE "again"

\* read_word(): the value returned by a pass that ends the loop
ReadWordValue == IF ReadWordPass = "read" THEN decode_word(rx[1], rx[2]) ELSE DEAD

\* mutant of ReadWordBytes: the pass that reads takes one byte only
ReadWordBytes_One == IF ReadWordPass = "read" THEN SubSeq(rx, 1, 1) ELSE << >>

\* read_word(): the bytes a pass that ends the loop takes from the port
ReadWordBytes == IF ReadWordPass = "read" THEN SubSeq(rx, 1, 2) ELSE << >>

\* read_word(): a pass that leaves the loop running
ReadWordAgain ==
  /\ timeout' = IF now > timeout
                THEN (now + rw_timeout_length) % ClockMod ELSE timeout
  /\ ww' = Warned(ww)
  /\ polled' = TRUE
  /\ UNCHANGED <<pc, give_up, now>>

\* mutant of Consume: the pass that ends a wait always reads a byte
Consume_AlwaysReads(n) ==
  rx' = SubSeq(rx, (IF n = 0 THEN 1 ELSE n) + 1, Len(rx))

\* the port after a pass of ack() or read_word() took n bytes from it
Consume(n) == rx' = SubSeq(rx, n + 1, Len(rx))

\* mutant of PriorAckFailed: the flag is cleared whatever ack() returned
PriorAckFailed_ClearsFlag ==
  /\ ret' = Default(cur.shape)
  /\ EndWait("ret")
  /\ pending_ack' = FALSE

\* mutant of PriorAckFailed: the call goes on to the drain and the request
PriorAckFailed_GoesOn ==
  /\ ret' = ret
  /\ EndWait("drain")
  /\ pending_ack' = pending_ack

\* if (!ack()) { return Response(); }
PriorAckFailed ==
  /\ ret' = Default(cur.shape)
  /\ EndWait("ret")
  /\ pending_ack' = pending_ack

\* if (pending_ack) { if (!ack()) return Response(); pending_ack = false; }
PriorAckPoll ==
  /\ pc = "prior_ack"
  /\ IF AckPass = "again"
     THEN /\ AckAgain
          /\ UNCHANGED <<pending_ack, rx, ret, g, unacked>>
     ELSE /\ Consume(IF AckPass = "read" THEN 1 ELSE 0)
          /\ g' = Traced([g EXCEPT !.prior = IF AckResult(AckResponse) THEN "ok" ELSE "fail",
                                   !.priorByte = AckResponse,
                                   !.nreads = @ + (IF AckPass = "read" THEN 1 ELSE 0)],
                          PriorAckTrace(AckResult(AckResponse)))
          /\ wa' = EndOf(wa, ack_timeout_length, ack_give_up_length, 1,
                         IF AckPass = "read" THEN <<Head(rx)>> ELSE << >>,
                         AckResult(AckResponse))
          /\ unacked' = IF AckResponse = ACK THEN 0 ELSE unacked
          /\ IF AckResult(AckResponse)
             THEN /\ pending_ack' = FALSE
                  /\ EndWait("drain")
                  /\ ret' = ret
             ELSE PriorAckFailed
  /\ UNCHANGED <<outstanding_words, previous_command, written, cur, attempt,
                 calls, dispatched, ninv, results, ww>>
  /\ UNCHANGED lg

\* mutant of StillOutstanding: the drain loop is never entered
StillOutstanding_Never == FALSE

\* the test of while (outstanding_words > 0)
StillOutstanding == outstanding_words > 0

\* mutant of DrainTest: the drain loop is missing
DrainTest_SkipsDrain ==
  /\ pc = "drain"
  /\ EndWait("transmit")
  /\ UNCHANGED <<pending_ack, outstanding_words, previous_command, rx, written,
                 cur, attempt, ret, calls, dispatched, ninv, results, g, unacked, wa,
                 ww>>
  /\ UNCHANGED lg

\* while (outstanding_words > 0): the loop test, entering read_word() or
\* falling through to the request
DrainTest ==
  /\ pc = "drain"
  /\ IF StillOutstanding
     THEN /\ BeginReadWord("drain_read")
          /\ ww' = FreshWait(ww, rx, 2)
     ELSE /\ EndWait("transmit")
          /\ ww' = ww
  /\ UNCHANGED <<pending_ack, outstanding_words, previous_command, rx, written,
                 cur, attempt, ret, calls, dispatched, ninv, results, g, unacked, wa>>
  /\ UNCHANGED lg

\* mutant of IsSentinel: the timeout value is taken for a drained word
IsSentinel_Never(garbage) == FALSE

\* the test of if (garbage == 0xDEAD)
IsSentinel(garbage) == garbage = DEAD

\* mutant of DrainAbandon: the word that read as 0xDEAD is counted as drained
DrainAbandon_CountsWord ==
  /\ ret' = Default(cur.shape)
  /\ g' = [g EXCEPT !.sentinel = TRUE, !.nreads = @ + Len(ReadWordBytes)]
  /\ EndWait("ret")
  /\ outstanding_words' = (outstanding_words - 1) % OutstandingMod

\* the body of if (garbage == 0xDEAD): log the error, return Response()
DrainAbandon ==
  /\ ret' = Default(cur.shape)
  /\ g' = [g EXCEPT !.sentinel = TRUE, !.nreads = @ + Len(ReadWordBytes)]
  /\ EndWait("ret")
  /\ UNCHANGED outstanding_words

\* garbage = read_word(); if (garbage == 0xDEAD) return Response(); outstanding_words--
DrainPoll ==
  /\ pc = "drain_read"
  /\ IF ReadWordPass = "again"
     THEN /\ ReadWordAgain
          /\ UNCHANGED <<outstanding_words, rx, ret, g>>
     ELSE /\ Consume(Len(ReadWordBytes))
          /\ ww' = EndOf(ww, rw_timeout_length, rw_give_up_length, 2, ReadWordBytes, ReadWordValue)
          /\ IF IsSentinel(ReadWordValue)
             THEN DrainAbandon
             ELSE /\ outstanding_words' = (outstanding_words - 1) % OutstandingMod
                  /\ g' = [g EXCEPT !.drained = @ + 1, !.nreads = @ + Len(ReadWordBytes)]
                  /\ EndWait("drain")
                  /\ ret' = ret
  /\ UNCHANGED <<pending_ack, previous_command, written, cur, attempt, calls,
                 dispatched, ninv, results, unacked, wa>>
  /\ UNCHANGED lg

\* mutant of Deferred: the flag is not raised
Deferred_KeepsFlag ==
  /\ pending_ack' = pending_ack
  /\ outstanding_words' = (outstanding_words + cur.response_words) % OutstandingMod
  /\ ret' = Default(cur.shape)
  /\ EndWait("ret")

\* mutant of Deferred: the response words of the command are not counted
Deferred_NoWordsOwed ==
  /\ pending_ack' = TRUE
  /\ outstanding_words' = outstanding_words
  /\ ret' = Default(cur.shape)
  /\ EndWait("ret")

\* the tail of invoke when this command's ack is left pending: pending_ack = true
\* (both branches of if (blocking)), then if (pending_ack)
\* { outstanding_words += response_words; r = Response(); }
Deferred ==
  /\ pending_ack' = TRUE
  /\ outstanding_words' = (outstanding_words + cur.response_words) % OutstandingMod
  /\ ret' = Default(cur.shape)
  /\ EndWait("ret")

\* mutant of Transmit: the command's own ack is waited for whatever blocking says
Transmit_AlwaysWaits ==
  /\ pc = "transmit"
  /\ written' = written \o RequestBytes(cur)
  /\ unacked' = unacked + 1
  /\ g' = Traced([g EXCEPT !.tx = TRUE, !.readsAtTx = g.nreads],
                 <<"Writing request", "Blocking for ACK">>)
  /\ BeginAck("own_ack")
  /\ wa' = FreshWait(wa, rx, 1)
  /\ UNCHANGED <<pending_ack, outstanding_words, previous_command, ret>>
  /\ UNCHANGED <<rx, cur, attempt, calls, dispatched, ninv, results, ww>>
  /\ UNCHANGED lg

\* "Writing request"; request(); then if (blocking) ack() else
\* { pending_ack = true; previous_command = name; } and the deferred tail
Transmit ==
  /\ pc = "transmit"
  /\ written' = written \o RequestBytes(cur)
  /\ unacked' = unacked + 1
  /\ g' = Traced([g EXCEPT !.tx = TRUE, !.readsAtTx = g.nreads],
                 <<"Writing request">>
                   \o (IF cur.blocking THEN <<"Blocking for ACK">> ELSE DeferredTrace))
  /\ IF cur.blocking
     THEN /\ BeginAck("own_ack")
          /\ wa' = FreshWait(wa, rx, 1)
          /\ UNCHANGED <<pending_ack, outstanding_words, previous_command, ret>>
     ELSE /\ previous_command' = cur.name
          /\ wa' = wa
          /\ Deferred
  /\ UNCHANGED <<rx, cur, attempt, calls, dispatched, ninv, results, ww>>
  /\ UNCHANGED lg

\* if (!ack()) pending_ack = true; then the response: the deferred tail, or
\* "Getting response" and responder()
OwnAckPoll ==
  /\ pc = "own_ack"
  /\ IF AckPass = "again"
     THEN /\ AckAgain
          /\ UNCHANGED <<pending_ack, outstanding_words, rx, ret, g, unacked, ww>>
     ELSE /\ Consume(IF AckPass = "read" THEN 1 ELSE 0)
          /\ g' = Traced([g EXCEPT !.own = IF AckResult(AckResponse) THEN "ok" ELSE "fail",
                                   !.ownByte = AckResponse,
                                   !.nreads = @ + (IF AckPass = "read" THEN 1 ELSE 0)],
                          IF ~AckResult(AckResponse) THEN DeferredTrace
                          ELSE AckTrace(TRUE) \o <<"Getting response">>
                                 \o (IF cur.shape = "ackonly"
                                      THEN <<"Latency">> ELSE << >>))
          /\ wa' = EndOf(wa, ack_timeout_length, ack_give_up_length, 1,
                         IF AckPass = "read" THEN <<Head(rx)>> ELSE << >>,
                         AckResult(AckResponse))
          /\ ww' = IF AckResult(AckResponse) /\ cur.shape # "ackonly"
                   THEN FreshWait(ww, Tail(rx), 2) ELSE ww
          /\ unacked' = IF AckResponse = ACK THEN 0 ELSE unacked
          /\ IF ~AckResult(AckResponse)
             THEN Deferred
             ELSE /\ UNCHANGED <<pending_ack, outstanding_words>>
                  /\ IF cur.shape = "ackonly"
                     THEN /\ ret' = Responder(cur.shape, 0)
                          /\ EndWait("ret")
                     ELSE /\ ret' = ret
                          /\ BeginReadWord("response")
  /\ UNCHANGED <<previous_command, written, cur, attempt, calls, dispatched, ninv,
                 results>>
  /\ UNCHANGED lg

\* r = responder() for the responders that call read_word()
ResponsePoll ==
  /\ pc = "response"
  /\ IF ReadWordPass = "again"
     THEN /\ ReadWordAgain
          /\ UNCHANGED <<rx, ret, g>>
     ELSE /\ Consume(Len(ReadWordBytes))
          /\ ww' = EndOf(ww, rw_timeout_length, rw_give_up_length, 2, ReadWordBytes, ReadWordValue)
          /\ ret' = Responder(cur.shape, ReadWordValue)
          /\ g' = Traced([g EXCEPT !.responded = TRUE, !.rbytes = ReadWordBytes,
                                   !.nreads = @ + Len(ReadWordBytes)],
                          <<"Latency">>)
          /\ EndWait("ret")
  /\ UNCHANGED <<pending_ack, outstanding_words, previous_command, written, cur,
                 attempt, calls, dispatched, ninv, results, unacked, wa>>
  /\ UNCHANGED lg

\* ------------------------------------------------------------ the callers
\* an API function is called and makes its first (for most, only) invoke call
Call(c, limit) ==
  /\ pc = "idle"
  /\ calls < limit
  /\ calls' = calls + 1
  /\ attempt' = 0
  /\ results' = << >>
  /\ dispatched' = dispatched
  /\ InvokeEntry(c, 0)
  /\ UNCHANGED lg

Call_clear == \E blocking \in BOOLEAN : Call(clear(blocking), MaxCalls)

Call_draw_circle ==
  \E blocking \in BOOLEAN : Call(draw_circle(10, 10, 5, 65535, blocking), MaxCalls)

Call_contrast == Call(contrast(7), MaxCalls)

Call_media_init == Call(media_init, MaxCalls)

Call_media_write_sector ==
  \E sector \in Sectors, blocking \in BOOLEAN :
    Call(media_write_sector(sector, blocking), MaxSectorWrites)

\* the invoke call in progress returned in step 1 or in step 2
Abandoned == g.prior = "fail" \/ g.sentinel

\* mutant of RetryAgain: one attempt too many
RetryAgain_OffByOne(success, n) == ~success /\ n <= max_attempts

\* media_write_sector: the test of while (!success && attempt < 10), made
\* after attempt++
RetryAgain(success, n) == ~success /\ n < max_attempts

\* invoke has returned r.  media_write_sector: success = r; attempt++;
\* while (!success && attempt < 10), then return success.  Every other
\* command returns r to its caller.
Return ==
  /\ pc = "ret"
  /\ results' = Append(results, ret)
  /\ dispatched' = IF Abandoned THEN dispatched ELSE Append(dispatched, cur)
  /\ IF cur.api = "media_write_sector" /\ RetryAgain(ret, attempt + 1)
     THEN /\ attempt' = attempt + 1
          /\ InvokeEntry(cur, ninv)
     ELSE /\ attempt' = IF cur.api = "media_write_sector" THEN attempt + 1 ELSE attempt
          /\ EndWait("idle")
          /\ g' = NoTrace
          /\ wa' = Reset(wa)
          /\ ww' = Reset(ww)
          /\ UNCHANGED <<pending_ack, outstanding_words, previous_command, rx,
                         written, cur, ret, ninv, unacked>>
  /\ UNCHANGED calls
  /\ UNCHANGED lg

\* the steps of invoke and of its waits, and the device
Engine ==
  \/ PriorAckPoll
  \/ DrainTest
  \/ DrainPoll
  \/ Transmit
  \/ OwnAckPoll
  \/ ResponsePoll
  \/ Return

Next ==
  \/ Call_clear
  \/ Call_draw_circle
  \/ Call_contrast
  \/ Call_media_init
  \/ Engine
  \/ Tick(CoarseTick)
  \/ DeviceSend(DeviceBytes)

NextRetry ==
  \/ Call_media_write_sector
  \/ Engine
  \/ Tick(CoarseTick)
  \/ DeviceSend(SectorReplyBytes)

Spec == Init /\ [][Next]_vars

\* the waits at a fine clock, with their records kept
InitWait ==
  /\ pending_ack = FALSE
  /\ outstanding_words = 0
  /\ previous_command = ""
  /\ rx = << >>
  /\ written = << >>
  /\ now = 0
  /\ polled = FALSE
  /\ timeout = 0
  /\ give_up = 0
  /\ pc = "idle"
  /\ cur = NoCall
  /\ attempt = 0
  /\ ret = 0
  /\ calls = 0
  /\ dispatched = << >>
  /\ ninv = 0
  /\ results = << >>
  /\ unacked = 0
  /\ g = NoTrace
  /\ wa = NoWait
  /\ ww = NoWait
  /\ lg = NoLegacy

Call_contrast_timed == Call(contrast(7), MaxTimedCalls)

NextWait ==
  \/ Call_contrast_timed
  \/ Engine
  \/ Tick(FineTick)
  \/ DeviceSend(TimedBytes)

SpecWait == InitWait /\ [][NextWait]_vars

\* the sector write alone, through all its attempts
SpecRetry == Init /\ [][NextRetry]_vars

\* ---------------------------------------------------- the codec, looped back
\* 16-bit words given to the codec: one with unlike bytes, 0xDEAD, the largest
CodecWords == {258, 57005, 65535}

\* the sequences of at most n elements of S
SeqsUpTo(S, n) == UNION { [1..k -> S] : k \in 0..n }

\* the arguments of write_compound_words: portions of words
CompoundRequests == SeqsUpTo(SeqsUpTo(CodecWords, MaxBlockLen), MaxBlocks)

InitCodec ==
  /\ pending_ack = FALSE
  /\ outstanding_words = 0
  /\ previous_command = ""
  /\ rx = << >>
  /\ written = << >>
  /\ now = 0
  /\ polled = FALSE
  /\ timeout = 0
  /\ give_up = 0
  /\ pc = "encode"
  /\ cur \in { [NoCall EXCEPT !.body = b] : b \in CompoundRequests }
  /\ attempt = 0
  /\ ret = 0
  /\ calls = 0
  /\ dispatched = << >>
  /\ ninv = 0
  /\ results = << >>
  /\ unacked = 0
  /\ g = NoTrace
  /\ wa = Off
  /\ ww = Off
  /\ lg = NoLegacy

\* write_compound_words(compound_request) onto a wire looped back to the port
CodecWrite ==
  /\ pc = "encode"
  /\ written' = written \o write_compound_words(cur.body)
  /\ rx' = rx \o write_compound_words(cur.body)
  /\ pc' = "decode"
  /\ UNCHANGED <<pending_ack, outstanding_words, previous_command, now, polled,
                 timeout, give_up, cur, attempt, ret, calls, dispatched, ninv,
                 unacked, g, wa, ww, results>>
  /\ UNCHANGED lg

\* read_word() called on those bytes, once per word
CodecRead ==
  /\ pc = "decode"
  /\ IF rx = << >>
     THEN pc' = "decoded" /\ UNCHANGED <<rx, results>>
     ELSE /\ ReadWordPass = "read"
          /\ results' = Append(results, ReadWordValue)
          /\ Consume(Len(ReadWordBytes))
          /\ pc' = pc
  /\ UNCHANGED <<pending_ack, outstanding_words, previous_command, written, now,
                 polled, timeout, give_up, cur, attempt, ret, calls, dispatched,
                 ninv, unacked, g, wa, ww>>
  /\ UNCHANGED lg

NextCodec == CodecWrite \/ CodecRead

SpecCodec == InitCodec /\ [][NextCodec]_vars

\* ------------------------------------------------------------ the polygons
\* the points and colours handed to the polygon commands
PolyPoints == { <<10, 10>>, <<50, 10>>, <<50, 50>> }
PointLists == SeqsUpTo(PolyPoints, MaxPoints)
PolyColors == {31, 65535}

\* the calls draw_polyline / draw_polygon / draw_polygon_filled of
\* poly_points(points) that the application may make
PolyCalls ==
  UNION { { draw_polyline(poly_points(ps), c, b),
            draw_polygon(poly_points(ps), c, b),
            draw_polygon_filled(poly_points(ps), c, b) } :
          ps \in PointLists, c \in PolyColors, b \in BOOLEAN }

\* the driver constructed, and the polygon call the application repeats
InitPoly ==
  /\ pending_ack = FALSE
  /\ outstanding_words = 0
  /\ previous_command = ""
  /\ rx = << >>
  /\ written = << >>
  /\ now = 0
  /\ polled = FALSE
  /\ timeout = 0
  /\ give_up = 0
  /\ pc = "idle"
  /\ cur \in PolyCalls
  /\ attempt = 0
  /\ ret = 0
  /\ calls = 0
  /\ dispatched = << >>
  /\ ninv = 0
  /\ results = << >>
  /\ unacked = 0
  /\ g = NoTrace
  /\ wa = Off
  /\ ww = Off
  /\ lg = NoLegacy

Call_draw_poly == Call(cur, MaxPolyCalls)

\* the polygon commands have no response word: invoke without a drain read
\* and without a responder read
NextPoly ==
  \/ Call_draw_poly
  \/ PriorAckPoll
  \/ DrainTest
  \/ Transmit
  \/ OwnAckPoll
  \/ Return
  \/ Tick(CoarseTick)
  \/ DeviceSend({ACK})

SpecPoly == InitPoly /\ [][NextPoly]_vars

\* the vertices vectors an application may hand to the polygon commands
\* directly, without poly_points: any words, any length, odd ones included
VertexWords == {10, 50}
VertexLists == SeqsUpTo(VertexWords, MaxVertices)

VertexCalls ==
  UNION { { draw_polyline(vs, c, b),
            draw_polygon(vs, c, b),
            draw_polygon_filled(vs, c, b) } :
          vs \in VertexLists, c \in PolyColors, b \in BOOLEAN }

\* the driver constructed, and the call the application repeats
InitVertices ==
  /\ pending_ack = FALSE
  /\ outstanding_words = 0
  /\ previous_command = ""
  /\ rx = << >>
  /\ written = << >>
  /\ now = 0
  /\ polled = FALSE
  /\ timeout = 0
  /\ give_up = 0
  /\ pc = "idle"
  /\ cur \in VertexCalls
  /\ attempt = 0
  /\ ret = 0
  /\ calls = 0
  /\ dispatched = << >>
  /\ ninv = 0
  /\ results = << >>
  /\ unacked = 0
  /\ g = NoTrace
  /\ wa = Off
  /\ ww = Off
  /\ lg = NoLegacy

SpecVertices == InitVertices /\ [][NextPoly]_vars

\* the waits at a fine clock that is about to wrap
NextClock ==
  \/ Call_contrast_timed
  \/ Engine
  \/ Tick(FineTick)
  \/ DeviceSend(TimedBytes)
  \/ ClockRuns(WrapOrigins)

SpecClock == InitWait /\ [][NextClock]_vars

\* the sector write through all its attempts, with the records of its waits kept
SpecResend == InitWait /\ [][NextRetry]_vars

\* where the caller is and what its wait has seen of the clock: every step of
\* invoke and of the clock changes it
position == <<pc, polled, now>>

\* the value of millis() from which the soft deadline of a wait is the
\* largest value the clock can take
LastOrigins == {ClockMod - ack_timeout_length - 1, ClockMod - rw_timeout_length - 1}

\* the calls and their waits with the processor running and the clock
\* advancing: a step of invoke or of its waits is taken whenever one is
\* possible, and millis() does not stand still while a wait polls it
NextLive ==
  \/ Call_contrast_timed
  \/ Engine
  \/ TickByPasses(LapTick)
  \/ DeviceSend(TimedBytes)
  \/ ClockRuns(LastOrigins)

SpecLive ==
  /\ Init /\ [][NextLive]_vars
  /\ WF_position(Engine)
  /\ WF_position(TickByPasses(LapTick))

\* ------------------------------------ the earlier revision of the driver
\* the session state of Diablo and invoke_graphics_compound_request, ack()
\* and read_word() of src/unnamed/part_000, kept in the record lg

\* the value a uint8_t variable holds after initialisation with v
Uint8(v) == v % 256

\* static uint8_t timeout_length = 100;
legacy_timeout_length == Uint8(legacy_timeout_declared)

\* ack(): static uint8_t give_up_length = 4000;
legacy_ack_give_up_length == Uint8(legacy_ack_give_up_declared)

\* read_word(): static uint8_t give_up_length = 1000;
legacy_rw_give_up_length == Uint8(legacy_rw_give_up_declared)

\* the record of one call of invoke_graphics_compound_request: pending_ack at
\* entry (pa0), how the two ack() waits ended and the byte each took (prior,
\* priorByte, own, ownByte), whether the request was written (tx) and after
\* how many bytes read (readsAtTx), whether the responder was called (decoded),
\* whether it read a word and its bytes (responded, rbytes), the bytes the
\* call took from the port (nreads), and the time after which an ack() wait
\* left its loop without a byte (ackLeft) and a read_word() wait returned
\* 0xDEAD (wordLeft), -1 when none did
LegacyNoTrace == [pa0 |-> FALSE, prior |-> "none", priorByte |-> -1,
                  tx |-> FALSE, readsAtTx |-> 0, own |-> "none", ownByte |-> -1,
                  decoded |-> FALSE, responded |-> FALSE, rbytes |-> << >>,
                  nreads |-> 0, ackLeft |-> -1, wordLeft |-> -1,
                  traced |-> << >>]

\* the trace lines and the latency line of the earlier revision
LegacyTraced(l, lines) == [l EXCEPT !.t.traced = @ \o lines]

\* Diablo(Stream& serial): pending_ack(false); its port, its clock, the
\* locals of its waits and the position of its caller
LegacyDriver ==
  [on |-> TRUE, pending_ack |-> FALSE, rx |-> << >>, written |-> << >>,
   now |-> 0, polled |-> FALSE, timeout |-> 0, give_up |-> 0, start |-> 0,
   pc |-> "idle", cur |-> NoCall, ret |-> 0, calls |-> 0, t |-> LegacyNoTrace,
   good |-> TRUE]

\* everything but lg
main == <<pending_ack, outstanding_words, previous_command, rx, written, now,
          polled, timeout, give_up, pc, cur, attempt, ret, calls, dispatched,
          ninv, results, unacked, g, wa, ww>>

\* the first two lines of ack() and of read_word():
\* timeout = millis() + timeout_length, give_up = millis() + give_up_length
LegacyBeginWait(l, at, hard) ==
  [l EXCEPT !.pc = at, !.polled = FALSE, !.start = l.now,
            !.timeout = (l.now + legacy_timeout_length) % ClockMod,
            !.give_up = (l.now + hard) % ClockMod]

\* control leaves the waits; the next wait takes its own origin
LegacyEndWait(l, at) ==
  [l EXCEPT !.pc = at, !.polled = FALSE, !.start = 0, !.timeout = 0,
            !.give_up = 0, !.now = 0]

\* invoke_graphics_compound_request up to its first wait: "Invoking", then
\* if (pending_ack) ack()
LegacyInvoke(l, c) ==
  LET entered == [l EXCEPT !.cur = c, !.ret = Default(c.shape),
                           !.t = [LegacyNoTrace EXCEPT !.pa0 = l.pending_ack,
                                                       !.traced = <<"Invoking">>]]
  IN IF l.pending_ack
     THEN LegacyBeginWait(entered, "prior_ack", legacy_ack_give_up_length)
     ELSE LegacyEndWait(entered, "transmit")

\* ack(): what one pass of the do-while does; serial->read() gives -1 when
\* nothing is buffered
LegacyAckPass(l) ==
  IF l.now > l.timeout /\ l.now > l.give_up THEN "break"
  ELSE IF Len(l.rx) > 0 THEN "read" ELSE "again"

\* read_word(): what one pass of the while does
LegacyReadWordPass(l) ==
  IF Len(l.rx) >= 2 THEN "read"
  ELSE IF l.now > l.timeout /\ l.now > l.give_up THEN "dead" ELSE "again"

\* a pass of either wait that leaves the loop running: the soft interval
\* restarts when it has run out
LegacyAgain(l) ==
  [l EXCEPT !.polled = TRUE,
            !.timeout = IF l.now > l.timeout
                        THEN (l.now + legacy_timeout_length) % ClockMod ELSE @]

\* the time the wait in progress has run
LegacyElapsed(l) == (l.now - l.start) % ClockMod

\* the pass of ack() that leaves the loop, seen from the port: the byte it
\* took (-1: none, the loop was left by break) and the port after it
LegacyAckByte(l) == IF LegacyAckPass(l) = "read" THEN Head(l.rx) ELSE -1
LegacyAckTaken(l) == IF LegacyAckPass(l) = "read" THEN 1 ELSE 0

\* mutant of LegacyAfterPriorAck: the request is written only after 0x06
LegacyAfterPriorAck_NeedsAck(l) ==
  IF LegacyAckByte(l) = ACK
  THEN [LegacyEndWait(l, "transmit") EXCEPT !.pending_ack = FALSE]
  ELSE LegacyEndWait(l, "ret")

\* ack(); pending_ack = false; whatever ack() logged
LegacyAfterPriorAck(l) ==
  [LegacyEndWait(l, "transmit") EXCEPT !.pending_ack = FALSE]

\* if (pending_ack) { ack(); pending_ack = false; }
LegacyPriorAckPoll ==
  /\ lg.on /\ lg.pc = "prior_ack"
  /\ lg' = IF LegacyAckPass(lg) = "again" THEN LegacyAgain(lg)
           ELSE LegacyAfterPriorAck(
                  [lg EXCEPT !.rx = SubSeq(@, LegacyAckTaken(lg) + 1, Len(@)),
                             !.t.prior = IF LegacyAckByte(lg) = ACK THEN "ok" ELSE "fail",
                             !.t.priorByte = LegacyAckByte(lg),
                             !.t.nreads = @ + LegacyAckTaken(lg),
                             !.t.ackLeft = IF LegacyAckPass(lg) = "break"
                                           THEN LegacyElapsed(lg) ELSE @,
                             !.t.traced = @ \o AckTrace(LegacyAckByte(lg) = ACK)
                                            \o <<"Previous command ack">>])
  /\ UNCHANGED main

\* mutant of LegacyTransmit: a non-blocking call leaves pending_ack alone
LegacyTransmit_NoPending ==
  /\ lg.on /\ lg.pc = "transmit"
  /\ lg' = LET sent == [lg EXCEPT !.written = @ \o write_compound_words(lg.cur.body),
                                  !.t.tx = TRUE, !.t.readsAtTx = lg.t.nreads,
                                  !.t.traced = @ \o <<"Writing request">>
                                    \o (IF lg.cur.blocking
                                        THEN <<"Blocking for ACK">> ELSE << >>)]
           IN IF lg.cur.blocking
              THEN LegacyBeginWait(sent, "own_ack", legacy_ack_give_up_length)
              ELSE LegacyEndWait(sent, "respond")
  /\ UNCHANGED main

\* "Writing request"; write_words(portion) for every portion; then
\* if (blocking) ack() else pending_ack = true
LegacyTransmit ==
  /\ lg.on /\ lg.pc = "transmit"
  /\ lg' = LET sent == [lg EXCEPT !.written = @ \o write_compound_words(lg.cur.body),
                                  !.t.tx = TRUE, !.t.readsAtTx = lg.t.nreads,
                                  !.t.traced = @ \o <<"Writing request">>
                                    \o (IF lg.cur.blocking
                                        THEN <<"Blocking for ACK">> ELSE << >>)]
           IN IF lg.cur.blocking
              THEN LegacyBeginWait(sent, "own_ack", legacy_ack_give_up_length)
              ELSE [LegacyEndWait(sent, "respond") EXCEPT !.pending_ack = TRUE]
  /\ UNCHANGED main

\* "Blocking for ACK"; ack(); whatever ack() logged
LegacyOwnAckPoll ==
  /\ lg.on /\ lg.pc = "own_ack"
  /\ lg' = IF LegacyAckPass(lg) = "again" THEN LegacyAgain(lg)
           ELSE LegacyEndWait(
                  [lg EXCEPT !.rx = SubSeq(@, LegacyAckTaken(lg) + 1, Len(@)),
                             !.t.own = IF LegacyAckByte(lg) = ACK THEN "ok" ELSE "fail",
                             !.t.ownByte = LegacyAckByte(lg),
                             !.t.nreads = @ + LegacyAckTaken(lg),
                             !.t.ackLeft = IF LegacyAckPass(lg) = "break"
                                           THEN LegacyElapsed(lg) ELSE @,
                             !.t.traced = @ \o AckTrace(LegacyAckByte(lg) = ACK)],
                  "respond")
  /\ UNCHANGED main

\* "Getting response"; Response r = responder(): no_response returns 0, the
\* other responders call read_word()
LegacyRespond ==
  /\ lg.on /\ lg.pc = "respond"
  /\ lg' = LET called == LegacyTraced([lg EXCEPT !.t.decoded = TRUE],
                                       <<"Getting response">>)
           IN IF lg.cur.shape = "ackonly"
              THEN [LegacyEndWait(LegacyTraced(called, <<"Latency">>), "ret")
                      EXCEPT !.ret = Responder("ackonly", 0)]
              ELSE LegacyBeginWait(called, "response", legacy_rw_give_up_length)
  /\ UNCHANGED main

\* read_word() called by the responder, and return r
LegacyResponsePoll ==
  /\ lg.on /\ lg.pc = "response"
  /\ lg' = CASE LegacyReadWordPass(lg) = "again" -> LegacyAgain(lg)
             [] LegacyReadWordPass(lg) = "read" ->
                  LegacyEndWait(
                    [lg EXCEPT !.rx = SubSeq(@, 3, Len(@)),
                               !.ret = Responder(lg.cur.shape,
                                                 decode_word(lg.rx[1], lg.rx[2])),
                               !.t.responded = TRUE,
                               !.t.rbytes = SubSeq(lg.rx, 1, 2),
                               !.t.nreads = @ + 2,
                               !.t.traced = @ \o <<"Latency">>],
                    "ret")
             [] LegacyReadWordPass(lg) = "dead" ->
                  LegacyEndWait(
                    [lg EXCEPT !.ret = Responder(lg.cur.shape, DEAD),
                               !.t.responded = TRUE,
                               !.t.wordLeft = LegacyElapsed(lg),
                               !.t.traced = @ \o <<"Latency">>],
                    "ret")
  /\ UNCHANGED main

\* the API function returns r to the application
LegacyReturn ==
  /\ lg.on /\ lg.pc = "ret"
  /\ lg' = [lg EXCEPT !.pc = "idle", !.t = LegacyNoTrace, !.cur = NoCall, !.ret = 0]
  /\ UNCHANGED main

\* an API function of the earlier revision is called
LegacyCall(c, limit) ==
  /\ lg.on /\ lg.pc = "idle"
  /\ lg.calls < limit
  /\ lg' = [LegacyInvoke(lg, c) EXCEPT !.calls = @ + 1]
  /\ UNCHANGED main

\* millis() advances by d while a wait of the earlier revision is polling
LegacyTick(d) ==
  /\ lg.on /\ lg.pc \in {"prior_ack", "own_ack", "response"}
  /\ lg.polled
  /\ lg' = [lg EXCEPT !.now = (@ + d) % ClockMod, !.polled = FALSE]
  /\ UNCHANGED main

\* the display puts one byte on the wire of the earlier revision
LegacyDeviceSend(bytes) ==
  /\ lg.on /\ Len(lg.rx) < MaxRx
  /\ \E b \in bytes : lg' = [lg EXCEPT !.rx = Append(@, b)]
  /\ UNCHANGED main

\* the commands of the earlier revision: the same words under the same names
LegacyCall_clear == \E blocking \in BOOLEAN : LegacyCall(clear(blocking), MaxLegacyCalls)

LegacyCall_draw_circle ==
  \E blocking \in BOOLEAN :
    LegacyCall(draw_circle(10, 10, 5, 65535, blocking), MaxLegacyCalls)

LegacyCall_contrast == LegacyCall(contrast(7), MaxLegacyCalls)

LegacyCall_media_init == LegacyCall(media_init, MaxLegacyCalls)

LegacyEngine ==
  \/ LegacyPriorAckPoll
  \/ LegacyTransmit
  \/ LegacyOwnAckPoll
  \/ LegacyRespond
  \/ LegacyResponsePoll
  \/ LegacyReturn

\* the earlier revision as constructed; the later one is not used
InitLegacy ==
  /\ pending_ack = FALSE
  /\ outstanding_words = 0
  /\ previous_command = ""
  /\ rx = << >>
  /\ written = << >>
  /\ now = 0
  /\ polled = FALSE
  /\ timeout = 0
  /\ give_up = 0
  /\ pc = "idle"
  /\ cur = NoCall
  /\ attempt = 0
  /\ ret = 0
  /\ calls = 0
  /\ dispatched = << >>
  /\ ninv = 0
  /\ results = << >>
  /\ unacked = 0
  /\ g = NoTrace
  /\ wa = Off
  /\ ww = Off
  /\ lg = LegacyDriver

NextLegacy ==
  \/ LegacyCall_clear
  \/ LegacyCall_draw_circle
  \/ LegacyCall_contrast
  \/ LegacyCall_media_init
  \/ LegacyEngine
  \/ LegacyTick(CoarseTick)
  \/ LegacyDeviceSend(LegacyReplyBytes)

SpecLegacy == InitLegacy /\ [][NextLegacy]_vars

\* the waits of the earlier revision at a fine clock
LegacyCall_contrast_timed == LegacyCall(contrast(7), MaxTimedCalls)

\* a call that leaves its acknowledgement to the next call's wait
LegacyCall_clear_timed == LegacyCall(clear(FALSE), MaxTimedCalls)

NextLegacyWait ==
  \/ LegacyCall_contrast_timed
  \/ LegacyCall_clear_timed
  \/ LegacyEngine
  \/ LegacyTick(FineTick)
  \/ LegacyDeviceSend(TimedBytes)

SpecLegacyWait == InitLegacy /\ [][NextLegacyWait]_vars

\* ------------------------------------- the two revisions side by side
\* The application makes the same calls on a driver of each revision, each
\* on a port of its own, and the display sends the same bytes to both.

\* the premise on the call in progress: every ack() of either revision that
\* has ended read 0x06, and no wait of either ended by its hard deadline
GoodCall ==
  /\ g.prior # "fail" /\ g.own # "fail" /\ ~g.sentinel
  /\ g.responded => g.rbytes # << >>
  /\ lg.t.prior # "fail" /\ lg.t.own # "fail"
  /\ lg.t.ackLeft = -1 /\ lg.t.wordLeft = -1

\* the same API function is called on both drivers
BothCall(c) ==
  /\ pc = "idle"
  /\ lg.on /\ lg.pc = "idle"
  /\ calls < MaxBothCalls
  /\ calls' = calls + 1
  /\ attempt' = 0
  /\ results' = << >>
  /\ dispatched' = dispatched
  /\ InvokeEntry(c, 0)
  /\ lg' = [LegacyInvoke(lg, c) EXCEPT !.calls = @ + 1]

BothCall_clear == \E blocking \in BOOLEAN : BothCall(clear(blocking))

BothCall_contrast == BothCall(contrast(7))

\* the display puts the same byte on both wires
BothDeviceSend(bytes) ==
  /\ lg.on
  /\ Len(rx) < MaxRx /\ Len(lg.rx) < MaxRx
  /\ \E b \in bytes : /\ rx' = Append(rx, b)
                       /\ lg' = [lg EXCEPT !.rx = Append(@, b)]
  /\ UNCHANGED <<pending_ack, outstanding_words, previous_command, written, now,
                 polled, timeout, give_up, pc, cur, attempt, ret, calls, dispatched,
                 ninv, results, unacked, g, wa, ww>>

\* the call of the earlier revision returns once the later revision's has
\* come to its return; lg.good keeps whether the premise held of every call
\* so far
BothLegacyReturn ==
  /\ pc = "ret"
  /\ lg.on /\ lg.pc = "ret"
  /\ lg' = [lg EXCEPT !.pc = "idle", !.t = LegacyNoTrace, !.cur = NoCall,
                      !.ret = 0, !.good = @ /\ GoodCall]
  /\ UNCHANGED main

\* then the call of the later revision returns
BothReturn ==
  /\ lg.on /\ lg.pc = "idle"
  /\ Return

NextBoth ==
  \/ BothCall_clear
  \/ BothCall_contrast
  \/ PriorAckPoll
  \/ DrainTest
  \/ DrainPoll
  \/ Transmit
  \/ OwnAckPoll
  \/ ResponsePoll
  \/ BothReturn
  \/ LegacyPriorAckPoll
  \/ LegacyTransmit
  \/ LegacyOwnAckPoll
  \/ LegacyRespond
  \/ LegacyResponsePoll
  \/ BothLegacyReturn
  \/ Tick(CoarseTick)
  \/ LegacyTick(CoarseTick)
  \/ BothDeviceSend(LegacyReplyBytes)

SpecBoth == InitLegacy /\ [][NextBoth]_vars

\* ================================================================ claims
\* bytes the call in progress must have read before request(): the previous
\* command's ack byte if one was pending, and two bytes per owed word
OwedBytes == (IF g.pa0 THEN 1 ELSE 0) + 2 * g.ow0

\* C1: invoke reaches request() only with pending_ack false and
\* outstanding_words 0, having read in this same call the previous command's
\* 0x06 (if one was pending) and every owed response word before writing
\* anything; so at most one written request is without its 0x06 at any time.
C1_WriteAfterPriorResolved ==
  /\ pc = "transmit" =>
       /\ ~pending_ack
       /\ outstanding_words = 0
       /\ (g.pa0 => g.priorByte = ACK)
       /\ g.drained = g.ow0
       /\ g.nreads = OwedBytes
  /\ g.tx => g.readsAtTx = OwedBytes
  /\ unacked <= 1

\* C1 witness: clear() non-blocking, then draw_circle(10,10,5) non-blocking:
\* the circle frame is on the wire and clear's ack byte was read before it.
C1_Witness ==
  /\ dispatched = << clear(FALSE) >>
  /\ cur = draw_circle(10, 10, 5, 65535, FALSE)
  /\ pc = "ret"
  /\ g.pa0 /\ g.priorByte = ACK /\ g.tx /\ g.readsAtTx = 1
  /\ written = <<255, 130, 255, 120, 0, 10, 0, 10, 0, 5, 255, 255>>

\* C2 as stated: every non-blocking invoke returns with pending_ack true and
\* the default Response.
C2_Original ==
  (pc = "ret" /\ ~cur.blocking) => (pending_ack /\ ret = 0)

\* C2 amended: a non-blocking invoke returns the default Response; it returns
\* with pending_ack true when it wrote its request or when step 1 failed, and
\* with pending_ack false when it returned from the drain of step 2 on 0xDEAD
\* (the previous ack was just consumed and nothing was written).
C2_NonBlockingReturn ==
  (pc = "ret" /\ ~cur.blocking) =>
     /\ ret = 0
     /\ pending_ack = ~g.sentinel
     /\ (g.tx \/ g.prior = "fail") => pending_ack

\* C2 witness: a non-blocking call that found an ack pending, failed to get
\* it, and returned with pending_ack still true.
C2_Witness ==
  /\ pc = "ret" /\ ~cur.blocking
  /\ g.pa0 /\ g.prior = "fail" /\ pending_ack /\ ret = 0

\* the word read_word() makes of the bytes the responder took (none: timeout)
RespondedWord ==
  IF g.rbytes = << >> THEN 57005 ELSE g.rbytes[1] * 256 + g.rbytes[2]

\* C3: a blocking invoke whose own ack wait read 0x06 returns with
\* pending_ack false and with the decoder's value of the next response bytes:
\* hi*256+lo for the word commands, (word = 1) for the boolean ones, 0 for
\* the ack-only ones; contrast(7) answered 0x06 0x00 0x05 returns 5.
C3_BlockingAckedReturnsDecoded ==
  (pc = "ret" /\ cur.blocking /\ g.ownByte = ACK) =>
     /\ ~pending_ack
     /\ cur.shape = "ackonly" => (ret = 0 /\ ~g.responded)
     /\ cur.shape = "word" => (g.responded /\ ret = RespondedWord)
     /\ cur.shape = "bool" => (g.responded /\ ret = (RespondedWord = 1))
     /\ (cur.api = "contrast" /\ g.rbytes = <<0, 5>>) => ret = 5

\* C3 witness: contrast(7), ack 0x06, response bytes 0x00 0x05, returns 5.
C3_Witness ==
  /\ pc = "ret" /\ cur = contrast(7)
  /\ g.ownByte = ACK /\ g.rbytes = <<0, 5>> /\ ret = 5 /\ ~pending_ack

\* C4: when read_word() yields 0xDEAD in the drain of step 2, invoke returns
\* the default Response, has written no request byte, has read nothing after
\* that word, and leaves outstanding_words at the count still undrained (the
\* 0xDEAD word is not counted).
C4_DrainSentinelAbandons ==
  (pc = "ret" /\ g.sentinel) =>
     /\ ret = Default(cur.shape)
     /\ ~g.tx
     /\ g.own = "none" /\ ~g.responded
     /\ outstanding_words = g.ow0 - g.drained
     /\ outstanding_words > 0
     /\ g.nreads \in { (IF g.pa0 THEN 1 ELSE 0) + 2 * g.drained,
                       (IF g.pa0 THEN 1 ELSE 0) + 2 * g.drained + 2 }

\* C4 witness: a call that got the previous ack, then met 0xDEAD on the
\* first owed word.
C4_Witness ==
  /\ pc = "ret" /\ g.sentinel /\ g.pa0 /\ g.prior = "ok"
  /\ outstanding_words = 1 /\ ~pending_ack

\* the responder ran and read_word() gave it 0xDEAD (timeout, or the bytes
\* 0xDE 0xAD)
RespondedDead == pc = "ret" /\ g.responded /\ RespondedWord = 57005

\* C5 as stated: 0xDEAD while reading the command's own response makes the
\* call return the default Response, for every response shape.
C5_Original == RespondedDead => ret = Default(cur.shape)

\* C5 amended: 0xDEAD while reading the command's own response is handed to
\* the decoder like any word: a word-returning command returns 0xDEAD itself,
\* a boolean command returns false.
C5_ResponseSentinelDecoded ==
  RespondedDead =>
     /\ cur.shape = "word" => ret = 57005
     /\ cur.shape = "bool" => ret = FALSE
     /\ ~pending_ack /\ g.ownByte = ACK

\* C5 witness: contrast(7) acked, then no response before the hard deadline.
C5_Witness ==
  /\ RespondedDead /\ cur = contrast(7) /\ g.rbytes = << >> /\ ret = 57005

\* the call found N > 0 words owed and read N words that were not 0xDEAD
DrainedAll == pc = "ret" /\ g.ow0 > 0 /\ g.drained = g.ow0

\* C6 as stated: after such a call outstanding_words = 0, for every
\* triggering command.
C6_Original == DrainedAll => outstanding_words = 0

\* C6 amended: such a call writes its request with outstanding_words = 0 and
\* ends like a call that found nothing owed: with its own ack read as 0x06 it
\* returns the decoder's value and outstanding_words = 0; with its own ack
\* left pending (a failed blocking ack wait, or a non-blocking command) it
\* returns the default Response and outstanding_words = response_word_count.
C6_DrainThenNormal ==
  DrainedAll =>
     /\ g.tx
     /\ g.readsAtTx = OwedBytes
     /\ pending_ack = (~cur.blocking \/ g.ownByte # ACK)
     /\ outstanding_words = IF pending_ack THEN cur.response_words ELSE 0
     /\ pending_ack => ret = Default(cur.shape)
     /\ (~pending_ack /\ cur.shape = "word") => ret = RespondedWord
     /\ (~pending_ack /\ cur.shape = "bool") => ret = (RespondedWord = 1)
     /\ (~pending_ack /\ cur.shape = "ackonly") => ret = 0

\* C6 witness: one word owed and drained, then contrast(7) acked and answered.
C6_Witness ==
  /\ DrainedAll /\ cur = contrast(7) /\ g.ownByte = ACK
  /\ g.rbytes = <<0, 5>> /\ ret = 5 /\ outstanding_words = 0

\* C7: media_write_sector makes at most 10 invoke calls, all blocking, the
\* next one following the previous one's return at once; every call before
\* the last returned false; it returns the last call's value, and returns
\* false only after exactly 10 calls.
C7_RetryBound ==
  cur.api = "media_write_sector" =>
     /\ cur.blocking
     /\ ninv <= 10
     /\ ninv = Len(results) + (IF pc = "idle" THEN 0 ELSE 1)
     /\ attempt = Len(results)
     /\ \A i \in 1..Len(results) : (i < Len(results) \/ pc # "idle") => results[i] = FALSE
     /\ pc = "idle" =>
          /\ ret = results[Len(results)]
          /\ ret = FALSE => ninv = 10

\* C7 witness: ten attempts, all unsuccessful, and the call returned false.
C7_Witness ==
  /\ cur.api = "media_write_sector" /\ pc = "idle"
  /\ ninv = 10 /\ ret = FALSE

\* the bytes of a frame: each word most significant byte first, and for the
\* sector write the word 0x0017 followed by the sector bytes
RECURSIVE BigEndian(_)
BigEndian(ws) ==
  IF ws = << >> THEN << >>
  ELSE << Head(ws) \div 256, Head(ws) % 256 >> \o BigEndian(Tail(ws))

RECURSIVE Flatten(_)
Flatten(blocks) ==
  IF blocks = << >> THEN << >> ELSE Head(blocks) \o Flatten(Tail(blocks))

FrameOf(c) ==
  IF c.api = "media_write_sector" THEN <<0, 23>> \o c.sector
  ELSE BigEndian(Flatten(c.body))

RECURSIVE Stream(_)
Stream(cs) == IF cs = << >> THEN << >> ELSE FrameOf(Head(cs)) \o Stream(Tail(cs))

\* the invoke call in progress is past steps 1-2
PastDrain == pc \in {"own_ack", "response"} \/ (pc = "ret" /\ ~Abandoned)

\* C8: the bytes written are the complete frames, in call order, of exactly
\* the invoke calls that were not abandoned in steps 1-2, each once.
C8_WrittenIsFramesInOrder ==
  written = Stream(dispatched) \o (IF PastDrain THEN FrameOf(cur) ELSE << >>)

\* C8 witness: a blocking command and then a non-blocking one have both been
\* written and the stream holds their two whole frames.
C8_Witness ==
  /\ pc = "idle" /\ Len(dispatched) = 2
  /\ dispatched[1].blocking /\ ~dispatched[2].blocking
  /\ written = Stream(dispatched) /\ Len(written) > 4

\* C9 as stated: an ack() wait that has ended returned success exactly when
\* a byte was available before the hard deadline and the first such byte was
\* 0x06, and it took at most one byte.
C9_Original ==
  (wa.on /\ wa.done) =>
     /\ wa.value = (wa.early /\ wa.first = <<ACK>>)
     /\ Len(wa.taken) <= 1

\* C9: an ack() wait that has ended took at most one byte, the oldest in the
\* buffer at the pass that read it, which need not come before the hard
\* deadline; it returned success exactly when the byte it took is 0x06, and
\* failure for any other byte and when it left the loop without a byte.
C9_AckReadsOneByte ==
  (wa.on /\ wa.done) =>
     /\ Len(wa.taken) <= 1
     /\ wa.value = (wa.taken = <<ACK>>)
     /\ wa.taken # << >> => wa.taken = wa.first

\* C9 witness: an ack() wait ended in success on a 0x06 that it read after
\* the hard deadline.
C9_Witness ==
  /\ wa.on /\ wa.done
  /\ wa.value = TRUE /\ wa.taken = <<ACK>> /\ wa.late /\ ~wa.early

\* C10 as stated: a read_word() wait that has ended returned the big-endian
\* word of the two bytes it took exactly when two bytes were available before
\* the hard deadline, and otherwise returned 0xDEAD with nothing taken.
C10_Original ==
  (ww.on /\ ww.done) =>
     IF ww.early
     THEN /\ Len(ww.taken) = 2
          /\ ww.value = ww.taken[1] * 256 + ww.taken[2]
     ELSE ww.taken = << >> /\ ww.value = DEAD

\* C10: a read_word() wait that has ended either took exactly the two oldest
\* bytes b1, b2 of the buffer and returned b1 * 256 + b2, which it does
\* whenever two bytes are buffered at a pass of its loop, the pass made after
\* the hard deadline included; or it took nothing and returned 0xDEAD, on a
\* pass that found fewer than two bytes buffered.
C10_ReadWordTwoBytes ==
  (ww.on /\ ww.done) =>
     IF Len(ww.first) = 2
     THEN /\ ww.taken = ww.first
          /\ ww.value = ww.taken[1] * 256 + ww.taken[2]
     ELSE /\ ww.taken = << >>
          /\ ww.value = DEAD

\* C10 witness: a read_word() wait returned the word of two bytes that were
\* complete in the buffer only after the hard deadline.
C10_Witness ==
  /\ ww.on /\ ww.done
  /\ ww.late /\ ~ww.early /\ Len(ww.taken) = 2
  /\ ww.value = ww.taken[1] * 256 + ww.taken[2]

\* C11: a wait that ended by hard timeout (ack() left its loop with no
\* byte, read_word() returned 0xDEAD with nothing taken) logged a soft-timeout
\* warning earlier in that same wait.
C11_WarningBeforeHardTimeout ==
  /\ (wa.on /\ wa.done /\ wa.taken = << >>) => wa.warned
  /\ (ww.on /\ ww.done /\ ww.taken = << >>) => ww.warned

\* C12: for every compound request, write_compound_words emits two bytes per
\* word, most significant first, portions and words in order, and read_word()
\* called once per word on those bytes returns the original words in order.
C12_CodecRoundTrip ==
  /\ pc \in {"decode", "decoded"} =>
        /\ written = BigEndian(Flatten(cur.body))
        /\ Len(written) = 2 * Len(Flatten(cur.body))
  /\ pc = "decoded" => results = Flatten(cur.body)

\* C12 witness: two portions, <<0x0102, 0xDEAD>> and <<0xFFFF>>, written as
\* 01 02 DE AD FF FF and read back as the same three words.
C12_Witness ==
  /\ pc = "decoded"
  /\ cur.body = << <<258, 57005>>, <<65535>> >>
  /\ written = <<1, 2, 222, 173, 255, 255>>
  /\ results = <<258, 57005, 65535>>

\* the 16-bit words a byte sequence spells, high byte first
RECURSIVE WordsOf(_)
WordsOf(bytes) ==
  IF Len(bytes) < 2 THEN << >>
  ELSE <<bytes[1] * 256 + bytes[2]>> \o WordsOf(SubSeq(bytes, 3, Len(bytes)))

\* the last n bytes written
LastWritten(n) == SubSeq(written, Len(written) - n + 1, Len(written))

\* opcode, n, x1..xn, y1..yn, colour
PolyWords(opcode, ps, color) ==
  <<opcode, Len(ps)>> \o [i \in 1..Len(ps) |-> ps[i][1]]
                     \o [i \in 1..Len(ps) |-> ps[i][2]] \o <<color>>

\* the invoke call in progress is the given call and has written its request
Transmitted(c) == pc # "idle" /\ g.tx /\ cur = c

\* every polygon call of the claim with the opcode the claim gives it
PolygonCases ==
  UNION { { [points |-> ps, color |-> c, opcode |-> 19,
             call |-> draw_polygon(poly_points(ps), c, b)],
            [points |-> ps, color |-> c, opcode |-> 21,
             call |-> draw_polyline(poly_points(ps), c, b)],
            [points |-> ps, color |-> c, opcode |-> 20,
             call |-> draw_polygon_filled(poly_points(ps), c, b)] } :
          ps \in PointLists, c \in PolyColors, b \in BOOLEAN }

\* C13: for every list of n points, draw_polygon(poly_points(points), color)
\* transmits the words 0x0013, n, x1..xn, y1..yn, color; draw_polyline the
\* same after 0x0015 and draw_polygon_filled after 0x0014.
C13_PolygonWords ==
  (pc # "idle" /\ g.tx) =>
    \A t \in PolygonCases :
      Transmitted(t.call) =>
        WordsOf(LastWritten(2 * (2 * Len(t.points) + 3)))
          = PolyWords(t.opcode, t.points, t.color)

\* C13 witness: draw_polygon of (10,10), (50,10), (50,50) in 0xFFFF has
\* written the words 0x0013, 3, 10, 50, 50, 10, 10, 50, 0xFFFF.
C13_Witness ==
  /\ Transmitted(draw_polygon(poly_points(<< <<10, 10>>, <<50, 10>>, <<50, 50>> >>),
                              65535, FALSE))
  /\ WordsOf(written) = <<19, 3, 10, 50, 50, 10, 10, 50, 65535>>

\* C14: construction reads and writes nothing and leaves pending_ack false
\* and outstanding_words 0; the first invoke call after it makes no ack wait
\* for a previous command and no drain read, and writes its request before
\* it reads anything.
C14_FreshDriverWritesAtOnce ==
  /\ calls = 0 =>
        /\ pc = "idle" /\ written = << >> /\ g.nreads = 0
        /\ pending_ack = FALSE /\ outstanding_words = 0
  /\ (calls = 1 /\ pc # "idle") =>
        /\ ~g.pa0 /\ g.ow0 = 0
        /\ pc \notin {"prior_ack", "drain_read"}
        /\ g.prior = "none" /\ g.drained = 0 /\ ~g.sentinel
        /\ pc \in {"own_ack", "response", "ret"} => g.tx
        /\ g.tx => (g.readsAtTx = 0 /\ written = FrameOf(cur))

\* C14 witness: the first call on a new driver, a blocking one, has written
\* its request and only then read its ack.
C14_Witness ==
  /\ calls = 1 /\ pc = "ret" /\ cur.blocking
  /\ g.tx /\ g.readsAtTx = 0 /\ g.own = "ok" /\ written = FrameOf(cur)

\* C15: an invoke call whose step 1 failed (the previous command's ack wait
\* timed out or read a byte other than 0x06) returns the default Response
\* with pending_ack (true), outstanding_words and previous_command as they
\* were at entry and with nothing written.
C15_StepOneFailureChangesNothing ==
  (pc = "ret" /\ g.prior = "fail") =>
     /\ g.pa0 /\ g.priorByte # ACK
     /\ ret = Default(cur.shape)
     /\ pending_ack = g.pa0
     /\ outstanding_words = g.ow0
     /\ previous_command = g.prev0
     /\ ~g.tx /\ Len(written) = g.w0

\* C15 witness: step 1 read a byte other than 0x06 while a response word was
\* owed, and the call returned.
C15_Witness ==
  /\ pc = "ret" /\ g.prior = "fail" /\ g.priorByte \notin {-1, ACK}
  /\ g.ow0 = 1 /\ outstanding_words = 1 /\ pending_ack

\* C16: a blocking invoke call whose own ack wait failed returns the default
\* Response with pending_ack true and with response_word_count added to the
\* outstanding_words left by the drain, and has not run the responder; in
\* any call the responder reads a word only after this call's own ack was
\* read as 0x06.
C16_OwnAckFailureDefers ==
  /\ (pc = "ret" /\ g.own = "fail") =>
        /\ cur.blocking /\ g.tx /\ g.ownByte # ACK
        /\ pending_ack
        /\ outstanding_words =
              (g.ow0 - g.drained + cur.response_words) % OutstandingMod
        /\ ret = Default(cur.shape)
        /\ ~g.responded /\ g.rbytes = << >>
        /\ g.nreads = g.readsAtTx + (IF g.ownByte = -1 THEN 0 ELSE 1)
  /\ (pc = "response" \/ g.responded) => (g.own = "ok" /\ g.ownByte = ACK)

\* C16 witness: contrast(7) read a byte other than 0x06 as its ack and
\* returned 0 with pending_ack set and one response word owed.
C16_Witness ==
  /\ pc = "ret" /\ g.own = "fail" /\ g.ownByte \notin {-1, ACK}
  /\ cur.name = "contrast" /\ ret = 0
  /\ pending_ack /\ outstanding_words = 1

\* C17: pending_ack goes from true to false only in the step that reads 0x06
\* in step 1 of an invoke call; no step taken while it is true writes a byte;
\* and a step-1 wait that ends on a silent port ends the call with the
\* default Response and pending_ack still true.
C17_PendingAckOnlyClearedByAck ==
  [][ /\ (pending_ack /\ ~pending_ack') =>
           (pc = "prior_ack" /\ rx # << >> /\ Head(rx) = ACK /\ rx' = Tail(rx))
      /\ pending_ack => written' = written
      /\ (pc = "prior_ack" /\ pc' # "prior_ack" /\ rx = << >>) =>
           (pc' = "ret" /\ ret' = Default(cur.shape) /\ pending_ack')
    ]_vars

\* C17 witness: a blocking call's ack failed, the port stayed silent, and the
\* next call returned from step 1 without writing, pending_ack still true.
C17_Witness ==
  /\ calls = 2 /\ pc = "ret" /\ Len(dispatched) = 1 /\ dispatched[1].blocking
  /\ g.pa0 /\ g.prior = "fail" /\ g.priorByte = -1 /\ rx = << >>
  /\ pending_ack /\ ~g.tx /\ written = FrameOf(dispatched[1])

LastTransmitted ==
  IF pc = "ret" /\ g.tx THEN cur.name
  ELSE IF dispatched # << >> THEN dispatched[Len(dispatched)].name
  ELSE ""

\* C19: whenever invoke has returned or no call is in progress,
\* previous_command is the name of the last command whose request was
\* written, blocking or not; so it names the command that owes the
\* acknowledgement or the response words the next call will wait for.
C19_PreviousCommandIsLastTransmitted ==
  pc \in {"idle", "ret"} => previous_command = LastTransmitted

\* the response_word_count of the last command whose request was written
LastTransmittedWords ==
  IF pc # "idle" /\ g.tx THEN cur.response_words
  ELSE IF dispatched # << >> THEN dispatched[Len(dispatched)].response_words
  ELSE 0

\* C20: outstanding_words never exceeds the response_word_count of the last
\* command whose request was written; it is 0 from the writing of a request
\* to the += of step 5, so the += starts from 0 and the 8-bit counter does
\* not wrap.
C20_OutstandingBoundedByLastCommand ==
  /\ outstanding_words <= LastTransmittedWords
  /\ pc \in {"transmit", "own_ack", "response"} => outstanding_words = 0
  /\ (pc = "ret" /\ g.tx) => outstanding_words \in {0, cur.response_words}

\* C20 witness: a command owing one word was followed by another whose own
\* ack failed too: the first word was drained and only the second is owed.
C20_Witness ==
  /\ pc = "ret" /\ g.ow0 = 1 /\ g.drained = 1 /\ g.tx /\ g.own = "fail"
  /\ cur.response_words = 1 /\ outstanding_words = 1

\* the attempt in progress of a sector write is not the first and has
\* written the sector frame again; its own ack wait has not ended
Resent ==
  cur.api = "media_write_sector" /\ ninv >= 2 /\ pc = "own_ack"

\* C21: within one media_write_sector call the sector frame is written again
\* only after the response word of the previous transmission was read and
\* found not to be 1: every earlier attempt returned false, and the attempt
\* that writes the frame again has not dropped a word 1 in its drain.
C21_ResendOnlyAfterFailureWord ==
  Resent =>
     /\ \A i \in 1..Len(results) : results[i] = FALSE
     /\ g.drained > 0 => ~(ww.done /\ ww.value = 1)

\* C22: a non-blocking invoke call reads nothing from the port after it
\* wrote its request: it makes no ack wait of its own and no responder read,
\* and it returns with its name in previous_command; when it found
\* pending_ack false and outstanding_words 0 it reads nothing at all.
C22_NonBlockingReadsNothingAfterWrite ==
  (pc # "idle" /\ ~cur.blocking) =>
     /\ pc \notin {"own_ack", "response"}
     /\ g.own = "none" /\ ~g.responded
     /\ g.tx => /\ pc = "ret"
                /\ g.nreads = g.readsAtTx
                /\ previous_command = cur.name
     /\ (~g.pa0 /\ g.ow0 = 0) => (g.nreads = 0 /\ pc \notin WaitPcs)

\* C22 witness: a non-blocking call with nothing owed wrote its request and
\* returned while a byte sat unread in the buffer.
C22_Witness ==
  /\ pc = "ret" /\ ~cur.blocking /\ g.tx
  /\ ~g.pa0 /\ g.ow0 = 0 /\ g.nreads = 0 /\ rx # << >>
  /\ previous_command = cur.name /\ pending_ack

\* the wait in progress is one of ack(), of read_word()
InAck == pc \in {"prior_ack", "own_ack"}
InReadWord == pc \in {"drain_read", "response"}

\* warnings a wait can log before its hard deadline: hard / soft
MostWarnings(soft, hard) == hard \div soft

\* C23: the hard deadline of a wait is the one taken when the wait started,
\* whatever soft intervals were restarted since, and no soft interval is
\* started after it; a wait that ended with nothing taken (ack() without a
\* byte, read_word() with fewer than two) returned failure / 0xDEAD, on a
\* pass made after the hard interval had elapsed, and had logged at most
\* hard / soft warnings (10).
C23_HardDeadlineFixed ==
  /\ (wa.on /\ InAck) =>
        /\ give_up = (wa.start + ack_give_up_length) % ClockMod
        /\ (timeout - ack_timeout_length - wa.start) % ClockMod <= ack_give_up_length
  /\ (ww.on /\ InReadWord) =>
        /\ give_up = (ww.start + rw_give_up_length) % ClockMod
        /\ (timeout - rw_timeout_length - ww.start) % ClockMod <= rw_give_up_length
  /\ (wa.on /\ wa.done /\ wa.taken = << >>) =>
        /\ wa.value = FALSE /\ wa.late
        /\ wa.warnings <= MostWarnings(ack_timeout_length, ack_give_up_length)
  /\ (ww.on /\ ww.done /\ ww.taken = << >>) =>
        /\ ww.value = DEAD /\ ww.late
        /\ ww.warnings <= MostWarnings(rw_timeout_length, rw_give_up_length)

\* the ack() waits the invoke call in progress has entered
AckWaits ==
  (IF g.prior # "none" \/ pc = "prior_ack" THEN 1 ELSE 0)
    + (IF g.own # "none" \/ pc = "own_ack" THEN 1 ELSE 0)

\* the read_word() calls the invoke call in progress has entered: the drain
\* reads that gave a word, the one that gave 0xDEAD, the responder's, and the
\* one in progress
WordReads ==
  g.drained + (IF g.sentinel THEN 1 ELSE 0) + (IF g.responded THEN 1 ELSE 0)
    + (IF InReadWord THEN 1 ELSE 0)

\* C24: with the processor running and the clock advancing, every invoke
\* call returns whatever the device sends, having made at most two ack()
\* waits and at most (outstanding_words at entry + response_word_count)
\* read_word() calls; and every media_write_sector call returns, after at
\* most 10 invoke calls.  (The caller is idle again and again: a call in
\* progress always comes to its end, and with it every invoke call it made.)
C24_EveryCallTerminates ==
  /\ [](pc # "idle" => /\ AckWaits <= 2
                       /\ WordReads <= g.ow0 + cur.response_words
                       /\ ninv <= max_attempts)
  /\ []<>(pc = "idle")

\* C25: in the earlier revision an ack() wait that left its loop without a
\* byte had run for the 4000 time units its give_up_length declares, and a
\* read_word() wait that returned 0xDEAD for the 1000 it declares.
C25_LegacyWaitsRunTheirInterval ==
  /\ lg.t.ackLeft # -1 => lg.t.ackLeft >= legacy_ack_give_up_declared
  /\ lg.t.wordLeft # -1 => lg.t.wordLeft >= legacy_rw_give_up_declared

\* C26: a wait that was abandoned (ack() left its loop without a byte,
\* read_word() returned 0xDEAD with nothing taken) had run for more than its
\* hard interval since it started, and no wait, abandoned or not, ran for
\* more than hard + soft (and the pass that notices), also when millis()
\* wraps around during or just before the wait.
C26_WaitRunsItsHardInterval ==
  /\ (wa.on /\ wa.done) => /\ wa.taken = << >> => wa.late
                           /\ ~wa.over
  /\ (ww.on /\ ww.done) => /\ ww.taken = << >> => ww.late
                           /\ ~ww.over

\* a step in which the wait in progress ends
WaitEnds == (InAck \/ InReadWord) /\ pc' # pc

\* C27: the pass that ends a wait by hard timeout (ack() leaving its loop
\* with response still -1, read_word() returning 0xDEAD with fewer than two
\* bytes buffered) leaves the port's buffer as it was, so a single byte
\* buffered at a read_word() timeout is still buffered; and bytes leave the
\* buffer only from its front, one into the response of an ack() wait or two
\* into the word of a read_word() wait, so that byte is the ack candidate or
\* the high byte of the next wait that reads.
C27_TimeoutConsumesNothing ==
  [][/\ (WaitEnds /\ InAck /\ wa'.taken = << >>) => rx' = rx
     /\ (WaitEnds /\ InReadWord /\ ww'.taken = << >>) =>
           /\ rx' = rx /\ Len(rx) < 2
           /\ ww'.value = DEAD
     /\ (WaitEnds /\ InAck /\ wa'.taken # << >>) =>
           /\ rx # << >> /\ wa'.taken = <<Head(rx)>> /\ rx' = Tail(rx)
     /\ (WaitEnds /\ InReadWord /\ ww'.taken # << >>) =>
           /\ Len(rx) >= 2 /\ ww'.taken = <<rx[1], rx[2]>>
           /\ ww'.value \div 256 = rx[1]
           /\ rx' = Tail(Tail(rx))
     /\ ~WaitEnds => (rx' = rx \/ \E b \in TimedBytes : rx' = Append(rx, b))
    ]_vars

\* C27 witness: a read_word() wait has ended by hard timeout with exactly
\* one byte buffered, and that byte is still at the front of the buffer.
C27_Witness ==
  /\ ww.on /\ ww.done /\ ww.taken = << >> /\ ww.value = DEAD /\ ww.late
  /\ Len(ww.first) = 1
  /\ rx = ww.first

\* C28: in the earlier revision what ack() found never changes what
\* invoke_graphics_compound_request does: once the wait for a pending ack is
\* over the flag is clear, whatever byte came or none; every call that
\* returns has written its request and called its responder, non-blocking
\* calls and calls whose ack() failed included; and pending_ack on return
\* is (not blocking).
C28_LegacyAckOutcomeIgnored ==
  /\ (lg.on /\ lg.pc = "transmit") => ~lg.pending_ack
  /\ (lg.on /\ lg.pc # "idle" /\ lg.t.pa0 /\ lg.pc # "prior_ack") =>
        lg.t.prior # "none" /\ lg.t.tx = (lg.pc # "transmit")
  /\ (lg.on /\ lg.pc = "ret") =>
        /\ lg.t.tx /\ lg.t.decoded
        /\ lg.t.own # "none" <=> lg.cur.blocking
        /\ lg.pending_ack = ~lg.cur.blocking

\* C28 witness: a non-blocking call of the earlier revision returns having
\* written its request and called its responder after the wait for the
\* previous call's acknowledgement failed.
C28_Witness ==
  /\ lg.on /\ lg.pc = "ret" /\ ~lg.cur.blocking
  /\ lg.t.pa0 /\ lg.t.prior = "fail"
  /\ lg.t.tx /\ lg.t.decoded /\ lg.pending_ack

\* what the two drivers have done and hold is the same: the bytes written,
\* the bytes left on the port, the bytes read before the request was written
\* and in all, the bytes the waits took, the value returned and pending_ack
SameConduct ==
  /\ written = lg.written
  /\ rx = lg.rx
  /\ g.readsAtTx = lg.t.readsAtTx /\ g.nreads = lg.t.nreads
  /\ g.priorByte = lg.t.priorByte /\ g.ownByte = lg.t.ownByte
  /\ g.responded = lg.t.responded /\ g.rbytes = lg.t.rbytes
  /\ ret = lg.ret
  /\ pending_ack = lg.pending_ack

\* C29: when the same calls have been made on a driver of each revision,
\* every ack() so far read 0x06 and no wait of either ended by its hard
\* deadline, then at the return of each call both have written the same
\* bytes, read the same bytes at the same points relative to the writes,
\* return the same value and hold the same pending_ack, and
\* outstanding_words of the later revision is 0.
C29_RevisionsAgreeOnGoodRuns ==
  (lg.on /\ pc = "ret" /\ lg.pc = "ret" /\ lg.good /\ GoodCall) =>
     SameConduct /\ outstanding_words = 0

\* C29 witness: the second call on both drivers returns a decoded response
\* after it first read the 0x06 owed to a non-blocking first call.
C29_Witness ==
  /\ lg.on /\ pc = "ret" /\ lg.pc = "ret" /\ lg.good /\ GoodCall
  /\ calls = 2 /\ g.pa0 /\ g.prior = "ok" /\ lg.t.prior = "ok"
  /\ g.responded /\ lg.t.responded /\ Len(lg.t.rbytes) = 2

\* the words of the request the call in progress has written, whose
\* vertices argument is cur.body[2]: two of header, the vertices, one of colour
FrameWritten == WordsOf(LastWritten(2 * (Len(cur.body[2]) + 3)))

\* C30: a polygon command that has written its request wrote, between the
\* header (opcode, vertex count) and the colour word, exactly twice as many
\* coordinate words as the vertex count of the header says, whatever
\* vertices vector it was given.
C30_CoordinateWordsMatchCount ==
  (pc # "idle" /\ g.tx) =>
     /\ FrameWritten[1] \in {19, 20, 21}
     /\ FrameWritten[Len(FrameWritten)] = cur.body[3][1]
     /\ Len(FrameWritten) - 3 = 2 * FrameWritten[2]

\* the two logs of the README's "Anatomy of a log"
AsyncTrace == <<"Invoking", "Successful ack", "Previous command ack",
                "Writing request", "Getting response", "Latency">>
SyncTrace == <<"Invoking", "Writing request", "Blocking for ACK",
               "Successful ack", "Getting response", "Latency">>

\* a non-blocking call returns that found an ack pending, read 0x06 for it
\* and went on to write its request; a blocking call returns that found no
\* ack pending and read 0x06 for its own request
AsyncCase == pc = "ret" /\ ~cur.blocking /\ g.pa0 /\ g.prior = "ok" /\ g.tx
SyncCase == pc = "ret" /\ cur.blocking /\ ~g.pa0 /\ g.own = "ok"

\* the same of the earlier revision
LegacyAsyncCase ==
  lg.on /\ lg.pc = "ret" /\ ~lg.cur.blocking /\ lg.t.pa0 /\ lg.t.prior = "ok"
LegacySyncCase ==
  lg.on /\ lg.pc = "ret" /\ lg.cur.blocking /\ ~lg.t.pa0 /\ lg.t.own = "ok"

====
